---------------------------- MODULE Spec2Model ----------------------------
(***************************************************************************)
(* A model of the azc-auth web component                                   *)
(* (packages/ai-chat-components/src/components/auth.ts).                   *)
(*                                                                         *)
(* A JavaScript string is a sequence of characters; a character is a       *)
(* one-character TLA+ string (the token "U+00E9" stands for the single     *)
(* character e-acute).  URLs are therefore sequences, and                  *)
(* encodeURIComponent is computed character by character from the code     *)
(* points, as the ECMAScript Encode operation does.                        *)
(***************************************************************************)
EXTENDS Integers, Sequences, FiniteSets, TLC

VARIABLES
    type,            \* @property type
    loginRedirect,   \* @property loginRedirect
    logoutRedirect,  \* @property logoutRedirect
    optionsAttr,     \* the value of the element's "options" attribute
    options,         \* @property options
    _userDetails,    \* @state _userDetails
    loaded,          \* @state loaded
    pc,              \* where the constructor's getUserInfo().then(...) chain stands
    payload,         \* the parsed body of the /.auth/me response, once there is one
    requests,        \* every URL this instance has passed to fetch(), in order
    href,            \* window.location.href
    lastClick,       \* the last click event a rendered button has received
    dom              \* what the last render() produced

vars == <<type, loginRedirect, logoutRedirect, optionsAttr, options, _userDetails,
          loaded, pc, payload, requests, href, lastClick, dom>>

----------------------------------------------------------------------------
(* Characters and their code points.                                       *)

Lower == <<"a","b","c","d","e","f","g","h","i","j","k","l","m",
           "n","o","p","q","r","s","t","u","v","w","x","y","z">>
Upper == <<"A","B","C","D","E","F","G","H","I","J","K","L","M",
           "N","O","P","Q","R","S","T","U","V","W","X","Y","Z">>
Digit == <<"0","1","2","3","4","5","6","7","8","9">>
Punct == << <<" ", 32>>, <<"!", 33>>, <<"#", 35>>, <<"%", 37>>, <<"&", 38>>,
            <<"'", 39>>, <<"(", 40>>, <<")", 41>>, <<"*", 42>>, <<"-", 45>>,
            <<".", 46>>, <<"/", 47>>, <<"=", 61>>, <<"?", 63>>, <<"_", 95>>,
            <<"~", 126>>, <<"U+00E9", 233>> >>

Chars == {Lower[i] : i \in 1..Len(Lower)} \cup {Upper[i] : i \in 1..Len(Upper)}
           \cup {Digit[i] : i \in 1..Len(Digit)} \cup {Punct[i][1] : i \in 1..Len(Punct)}

IndexOf(seq, c) == CHOOSE i \in 1..Len(seq) : seq[i] = c

(* The code point of each character, as a table. *)
CodeTable ==
    [c \in Chars |->
        IF \E i \in 1..Len(Lower) : Lower[i] = c THEN 96 + IndexOf(Lower, c)
        ELSE IF \E i \in 1..Len(Upper) : Upper[i] = c THEN 64 + IndexOf(Upper, c)
        ELSE IF \E i \in 1..Len(Digit) : Digit[i] = c THEN 47 + IndexOf(Digit, c)
        ELSE Punct[CHOOSE i \in 1..Len(Punct) : Punct[i][1] = c][2]]

CharCode(c) == CodeTable[c]

(* The characters encodeURIComponent leaves alone: A-Z a-z 0-9 - _ . ! ~ * ' ( ) *)
UnreservedMarks == {45, 95, 46, 33, 126, 42, 39, 40, 41}

IsUnreserved(c) ==
    LET n == CharCode(c)
    IN  \/ n \in 65..90
        \/ n \in 97..122
        \/ n \in 48..57
        \/ n \in UnreservedMarks

HexDigits == <<"0","1","2","3","4","5","6","7","8","9","A","B","C","D","E","F">>

(* The UTF-8 octets of a code point below U+0800. *)
Utf8Bytes(n) ==
    IF n < 128 THEN <<n>>
    ELSE <<192 + (n \div 64), 128 + (n % 64)>>

PercentByte(b) == <<"%", HexDigits[(b \div 16) + 1], HexDigits[(b % 16) + 1]>>

RECURSIVE PercentBytes(_)
PercentBytes(bs) ==
    IF bs = <<>> THEN <<>>
    ELSE PercentByte(Head(bs)) \o PercentBytes(Tail(bs))

EncodeChar(c) ==
    IF IsUnreserved(c) THEN <<c>> ELSE PercentBytes(Utf8Bytes(CharCode(c)))

RECURSIVE encodeURIComponent(_)
encodeURIComponent(s) ==
    IF s = <<>> THEN <<>>
    ELSE EncodeChar(Head(s)) \o encodeURIComponent(Tail(s))

----------------------------------------------------------------------------
(* The three routes.                                                       *)

loginRoute == <<"/",".","a","u","t","h","/","l","o","g","i","n">>
logoutRoute == <<"/",".","a","u","t","h","/","l","o","g","o","u","t">>
userDetailsRoute == <<"/",".","a","u","t","h","/","m","e">>

----------------------------------------------------------------------------
(* JavaScript values.                                                      *)

Undefined == [kind |-> "undefined"]
Null == [kind |-> "null"]

(* An AuthDetails object: a clientPrincipal as the platform returns it. *)
AuthDetails(provider, id, name, roles) ==
    [kind |-> "object", identityProvider |-> provider, userId |-> id,
     userDetails |-> name, userRoles |-> roles, claims |-> <<>>]

Alice == AuthDetails("github", "u-1", "alice", <<"anonymous", "authenticated">>)
Bob == AuthDetails("aad", "u-2", "bob", <<"anonymous", "authenticated", "admin">>)

(* JavaScript's ToBoolean on the values _userDetails can hold. *)
Truthy(v) == v.kind \notin {"undefined", "null"}

(* An object spread {...a, ...b}: b's own keys over a's. *)
Spread(a, b) ==
    [k \in (DOMAIN a) \cup (DOMAIN b) |-> IF k \in DOMAIN b THEN b[k] ELSE a[k]]

----------------------------------------------------------------------------
(* AuthOptions and the options attribute converter.                        *)

AuthProvider(id, label, icon, color, textColor) ==
    [id |-> id, label |-> label, icon |-> icon, color |-> color, textColor |-> textColor]

defaultOptions ==
    [strings |-> [loginButton |-> "Log in", logoutButton |-> "Log out"],
     providers |-> <<
        AuthProvider(<<"a","a","d">>, "Sign in with Microsoft", "microsoftSvg",
                     "#00A4EF", "#fff"),
        AuthProvider(<<"g","i","t","h","u","b">>, "Sign in with GitHub", "githubSvg",
                     "#181717", "#fff"),
        AuthProvider(<<"g","o","o","g","l","e">>, "Sign in with Google",
                     "https://cdn.simpleicons.org/google/white", "#4285f4", "#fff"),
        AuthProvider(<<"f","a","c","e","b","o","o","k">>, "Sign in with Facebook",
                     "https://cdn.simpleicons.org/facebook/white", "#0866ff", "#fff"),
        AuthProvider(<<"a","p","p","l","e">>, "Sign in with Apple",
                     "https://cdn.simpleicons.org/apple/white", "#000", "#fff"),
        AuthProvider(<<"t","w","i","t","t","e","r">>, "Sign in with X",
                     "https://cdn.simpleicons.org/x/white", "#000", "#fff"),
        AuthProvider(<<"o","i","d","c">>, "Sign in with OpenID Connect",
                     "https://cdn.simpleicons.org/openid/white", "#333", "#fff") >>]

(* An attribute value as the converter receives it: null when the attribute *)
(* is absent, otherwise a text.  A text is represented by whether it is     *)
(* empty, whether JSON.parse accepts it, and the object JSON.parse returns. *)
AttrNull == [kind |-> "null", empty |-> FALSE, valid |-> FALSE, json |-> <<>>]
AttrEmpty == [kind |-> "text", empty |-> TRUE, valid |-> FALSE, json |-> <<>>]
AttrInvalid == [kind |-> "text", empty |-> FALSE, valid |-> FALSE, json |-> <<>>]
AttrJson(obj) == [kind |-> "text", empty |-> FALSE, valid |-> TRUE, json |-> obj]

Okta == AuthProvider(<<"o","k","t","a">>, "Sign in with Okta", "oktaSvg", "#007dc1", "#fff")

(* The attribute values the model sets: absent, "", "{}", an object with    *)
(* only strings (itself partial), one with only providers, one with both    *)
(* and a further key, and a text that is not JSON.                          *)
OptionsAttrValues == <<
    AttrNull,
    AttrEmpty,
    AttrJson(<<>>),
    AttrJson([strings |-> [loginButton |-> "Sign in"]]),
    AttrJson([providers |-> <<Okta>>]),
    AttrJson([strings |-> [loginButton |-> "Enter", logoutButton |-> "Leave"],
              providers |-> <<Okta, defaultOptions.providers[2]>>,
              theme |-> "dark"]),
    AttrInvalid >>

(* value || '{}' *)
OrEmptyObject(value) ==
    IF value.kind = "null" \/ value.empty THEN AttrJson(<<>>) ELSE value

(* JSON.parse throws a SyntaxError on a text that is not JSON. *)
JSONparseThrows(value) == ~OrEmptyObject(value).valid

JSONparse(text) == text.json

(* Variant: a deep merge, the given strings laid over the default strings. *)
converterDeepMerge(value) ==
    LET given == JSONparse(OrEmptyObject(value))
        merged == Spread(defaultOptions, given)
    IN  IF "strings" \in DOMAIN given
        THEN [merged EXCEPT !["strings"] = Spread(defaultOptions.strings, given.strings)]
        ELSE merged

converter(value) == Spread(defaultOptions, JSONparse(OrEmptyObject(value)))

----------------------------------------------------------------------------
(* Rendering.  A rendered template is its root element, the icon it shows,  *)
(* its text, whether it holds the <slot>, and its buttons in order.         *)

NoArg == <<>>

Button(class, label, icon, title, color, textColor, handler, arg) ==
    [class |-> class, label |-> label, icon |-> icon, title |-> title,
     color |-> color, textColor |-> textColor, handler |-> handler, arg |-> arg]

Template(root, icon, text, slot, buttons) ==
    [root |-> root, icon |-> icon, text |-> text, slot |-> slot, buttons |-> buttons]

(* Variant: the logout button is outside the conditional part. *)
renderStatusAlwaysLogout(userDetails) ==
    Template("section.auth-status", "personSvg",
             IF Truthy(userDetails)
             THEN <<"Logged in as ", userDetails.userDetails>> ELSE <<>>,
             FALSE,
             << Button("", "Logout", "", "", "", "", "onLogoutClicked", NoArg) >>)

renderStatus(userDetails) ==
    IF Truthy(userDetails)
    THEN Template("section.auth-status", "personSvg",
                  <<"Logged in as ", userDetails.userDetails>>, FALSE,
                  << Button("", "Logout", "", "", "", "", "onLogoutClicked", NoArg) >>)
    ELSE Template("section.auth-status", "personSvg", <<>>, FALSE, <<>>)

(* Variant: the test is userDetails !== undefined, so null counts as a user. *)
renderLoginUnlessUndefined(userDetails, opts) ==
    IF userDetails # Undefined
    THEN Template("slot", "", <<>>, TRUE, <<>>)
    ELSE Template("section.auth-login", "", <<>>, FALSE,
                  [i \in 1..Len(opts.providers) |->
                      LET provider == opts.providers[i]
                      IN  Button("login", provider.label, provider.icon, "",
                                 provider.color, provider.textColor,
                                 "onLoginClicked", provider.id)])

renderLogin(userDetails, opts) ==
    IF Truthy(userDetails)
    THEN Template("slot", "", <<>>, TRUE, <<>>)
    ELSE Template("section.auth-login", "", <<>>, FALSE,
                  [i \in 1..Len(opts.providers) |->
                      LET provider == opts.providers[i]
                      IN  Button("login", provider.label, provider.icon, "",
                                 provider.color, provider.textColor,
                                 "onLoginClicked", provider.id)])

renderLogout ==
    Template("button.logout", "", <<>>, FALSE,
             << Button("logout", "", "logoutSvg", "log out", "", "",
                       "onLogoutClicked", NoArg) >>)

(* Variant: only 'login' reaches the login branch; the default is the status. *)
renderDefaultStatus(t, userDetails, opts) ==
    CASE t = "login" -> renderLogin(userDetails, opts)
      [] t = "logout" -> renderLogout
      [] OTHER -> renderStatus(userDetails)

render(t, userDetails, opts) ==
    CASE t = "status" -> renderStatus(userDetails)
      [] t = "logout" -> renderLogout
      [] OTHER -> renderLogin(userDetails, opts)

----------------------------------------------------------------------------
(* The /.auth/me response.                                                  *)

(* A parsed response body: its JSON kind, whether it has a clientPrincipal  *)
(* member, and that member's value.                                         *)
Payload(kind, has, clientPrincipal) ==
    [kind |-> kind, has |-> has, clientPrincipal |-> clientPrincipal]

NoPayload == Payload("none", FALSE, Undefined)

(* null, 42, {}, {"clientPrincipal": null}, and two signed-in users. *)
Payloads == <<
    Payload("null", FALSE, Undefined),
    Payload("number", FALSE, Undefined),
    Payload("object", FALSE, Undefined),
    Payload("object", TRUE, Null),
    Payload("object", TRUE, Alice),
    Payload("object", TRUE, Bob) >>

(* Variant: a missing clientPrincipal comes back as null (?? null). *)
OptionalClientPrincipalOrNull(p) ==
    IF p.kind \in {"null", "undefined"} THEN Null
    ELSE IF p.has THEN p.clientPrincipal
    ELSE Null

(* payload?.clientPrincipal *)
OptionalClientPrincipal(p) ==
    IF p.kind \in {"null", "undefined"} THEN Undefined
    ELSE IF p.has THEN p.clientPrincipal
    ELSE Undefined

----------------------------------------------------------------------------
(* Inputs.                                                                  *)

PageUrl == <<"/","c","h","a","t">>

TypeValues == {"status", "login", "logout", "unknown"}

PostLoginParam == <<"?","p","o","s","t","_","l","o","g","i","n","_",
                    "r","e","d","i","r","e","c","t","_","u","r","i","=">>
PostLogoutParam == <<"?","p","o","s","t","_","l","o","g","o","u","t","_",
                     "r","e","d","i","r","e","c","t","_","u","r","i","=">>

(* The redirect targets the properties are set to: the default, and a deep  *)
(* link with a query, a fragment, a space, a non-ASCII character and a      *)
(* percent sign.                                                            *)
DefaultRedirect == <<"/">>
DeepLink == <<"/","a","?","b","=","c","&","d","#","e"," ","U+00E9","%">>
SampleRedirects == {DefaultRedirect, DeepLink}

(* Every text of at most MaxRedirectLen characters over RedirectChars. *)
MaxRedirectLen == 3
RedirectChars == {"a", "/", "?", "&", "=", "#", "%", "U+00E9"}
AllRedirects == UNION { [1..n -> RedirectChars] : n \in 0..MaxRedirectLen }

----------------------------------------------------------------------------
(* The component.                                                           *)

(* The field initialisers and the constructor, up to its first await: the   *)
(* request to /.auth/me is out, nothing has come back.                      *)
Init ==
    /\ type = "login"
    /\ loginRedirect = DefaultRedirect
    /\ logoutRedirect = DefaultRedirect
    /\ optionsAttr = AttrNull
    /\ options = defaultOptions
    /\ _userDetails = Undefined
    /\ loaded = FALSE
    /\ pc = "fetch"
    /\ payload = NoPayload
    /\ requests = <<userDetailsRoute>>
    /\ href = PageUrl
    /\ lastClick = [handler |-> "none", arg |-> NoArg]
    /\ dom = render(type, _userDetails, options)

(* Variant: the redirect target is put into the URL as it is. *)
onLoginClickedUnencoded(provider) ==
    LET redirect == loginRoute \o <<"/">> \o provider \o PostLoginParam \o loginRedirect
    IN  /\ href' = redirect
        /\ UNCHANGED <<type, loginRedirect, logoutRedirect, optionsAttr, options,
                       _userDetails, loaded, pc, payload, requests, dom>>

onLoginClicked(provider) ==
    LET redirect == loginRoute \o <<"/">> \o provider \o PostLoginParam
                      \o encodeURIComponent(loginRedirect)
    IN  /\ href' = redirect
        /\ UNCHANGED <<type, loginRedirect, logoutRedirect, optionsAttr, options,
                       _userDetails, loaded, pc, payload, requests, dom>>

(* Variant: the logout URL is built from loginRedirect. *)
onLogoutClickedLoginRedirect ==
    LET redirect == logoutRoute \o PostLogoutParam \o encodeURIComponent(loginRedirect)
    IN  /\ href' = redirect
        /\ UNCHANGED <<type, loginRedirect, logoutRedirect, optionsAttr, options,
                       _userDetails, loaded, pc, payload, requests, dom>>

(* Variant: logging out also forgets the user. *)
onLogoutClickedClearsUser ==
    LET redirect == logoutRoute \o PostLogoutParam \o encodeURIComponent(logoutRedirect)
    IN  /\ href' = redirect
        /\ _userDetails' = Undefined
        /\ dom' = render(type, _userDetails', options)
        /\ UNCHANGED <<type, loginRedirect, logoutRedirect, optionsAttr, options,
                       loaded, pc, payload, requests>>

onLogoutClicked ==
    LET redirect == logoutRoute \o PostLogoutParam \o encodeURIComponent(logoutRedirect)
    IN  /\ href' = redirect
        /\ UNCHANGED <<type, loginRedirect, logoutRedirect, optionsAttr, options,
                       _userDetails, loaded, pc, payload, requests, dom>>

(* A click on the i-th rendered button runs the listener the template wired. *)
ClickButton(i) ==
    /\ i \in 1..Len(dom.buttons)
    /\ lastClick' = [handler |-> dom.buttons[i].handler, arg |-> dom.buttons[i].arg]
    /\ IF dom.buttons[i].handler = "onLoginClicked"
       THEN onLoginClicked(dom.buttons[i].arg)
       ELSE onLogoutClicked

(* A reactive property is set; Lit renders again. *)
SetType(t) ==
    /\ type' = t
    /\ dom' = render(type', _userDetails, options)
    /\ UNCHANGED <<loginRedirect, logoutRedirect, optionsAttr, options, _userDetails,
                   loaded, pc, payload, requests, href, lastClick>>

SetLoginRedirect(r) ==
    /\ loginRedirect' = r
    /\ dom' = render(type, _userDetails, options)
    /\ UNCHANGED <<type, logoutRedirect, optionsAttr, options, _userDetails,
                   loaded, pc, payload, requests, href, lastClick>>

SetLogoutRedirect(r) ==
    /\ logoutRedirect' = r
    /\ dom' = render(type, _userDetails, options)
    /\ UNCHANGED <<type, loginRedirect, optionsAttr, options, _userDetails,
                   loaded, pc, payload, requests, href, lastClick>>

(* The options attribute is set or removed: the converter's result becomes  *)
(* the property, unless JSON.parse throws and the property stays as it was. *)
SetOptionsAttribute(value) ==
    /\ optionsAttr' = value
    /\ options' = IF JSONparseThrows(value) THEN options ELSE converter(value)
    /\ dom' = render(type, _userDetails, options')
    /\ UNCHANGED <<type, loginRedirect, logoutRedirect, _userDetails,
                   loaded, pc, payload, requests, href, lastClick>>

(* getUserInfo: await fetch(userDetailsRoute) *)
FetchResolved ==
    /\ pc = "fetch"
    /\ pc' = "json"
    /\ UNCHANGED <<type, loginRedirect, logoutRedirect, optionsAttr, options, _userDetails,
                   loaded, payload, requests, href, lastClick, dom>>

(* Variant: a rejected fetch is tried again. *)
FetchRejectedRetry ==
    /\ pc = "fetch"
    /\ pc' = "fetch"
    /\ requests' = Append(requests, userDetailsRoute)
    /\ UNCHANGED <<type, loginRedirect, logoutRedirect, optionsAttr, options, _userDetails,
                   loaded, payload, href, lastClick, dom>>

FetchRejected ==
    /\ pc = "fetch"
    /\ pc' = "failed"
    /\ UNCHANGED <<type, loginRedirect, logoutRedirect, optionsAttr, options, _userDetails,
                   loaded, payload, requests, href, lastClick, dom>>

(* getUserInfo: await response.json() *)
JsonResolved(p) ==
    /\ pc = "json"
    /\ pc' = "then"
    /\ payload' = p
    /\ UNCHANGED <<type, loginRedirect, logoutRedirect, optionsAttr, options, _userDetails,
                   loaded, requests, href, lastClick, dom>>

(* Variant: a body that is not JSON still marks the component loaded. *)
JsonRejectedLoaded ==
    /\ pc = "json"
    /\ pc' = "failed"
    /\ loaded' = TRUE
    /\ dom' = render(type, _userDetails, options)
    /\ UNCHANGED <<type, loginRedirect, logoutRedirect, optionsAttr, options, _userDetails,
                   payload, requests, href, lastClick>>

JsonRejected ==
    /\ pc = "json"
    /\ pc' = "failed"
    /\ UNCHANGED <<type, loginRedirect, logoutRedirect, optionsAttr, options, _userDetails,
                   loaded, payload, requests, href, lastClick, dom>>

(* The constructor's then callback, with what getUserInfo returned. *)
ThenCallback ==
    /\ pc = "then"
    /\ pc' = "done"
    /\ _userDetails' = OptionalClientPrincipal(payload)
    /\ loaded' = TRUE
    /\ dom' = render(type, _userDetails', options)
    /\ UNCHANGED <<type, loginRedirect, logoutRedirect, optionsAttr, options,
                   payload, requests, href, lastClick>>

Next ==
    \/ \E i \in 1..Len(dom.buttons) : ClickButton(i)
    \/ \E t \in TypeValues : SetType(t)
    \/ \E r \in SampleRedirects : SetLoginRedirect(r)
    \/ \E r \in SampleRedirects : SetLogoutRedirect(r)
    \/ \E k \in 1..Len(OptionsAttrValues) : SetOptionsAttribute(OptionsAttrValues[k])
    \/ FetchResolved
    \/ FetchRejected
    \/ \E k \in 1..Len(Payloads) : JsonResolved(Payloads[k])
    \/ JsonRejected
    \/ ThenCallback

Spec == Init /\ [][Next]_vars

(* An element created with type, loginredirect and logoutredirect           *)
(* attributes, before its request has been answered or after it has been    *)
(* answered with a signed-in user, and the clicks on what it renders: the   *)
(* URL builders applied to every redirect target within the bound.          *)
InitEncode ==
    /\ type \in {"status", "login", "logout"}
    /\ \/ loginRedirect \in AllRedirects /\ logoutRedirect \in SampleRedirects
       \/ loginRedirect \in SampleRedirects /\ logoutRedirect \in AllRedirects
    /\ optionsAttr = AttrNull
    /\ options = defaultOptions
    /\ \/ pc = "fetch" /\ payload = NoPayload /\ _userDetails = Undefined /\ loaded = FALSE
       \/ pc = "done" /\ payload = Payloads[5] /\ _userDetails = Alice /\ loaded = TRUE
    /\ requests = <<userDetailsRoute>>
    /\ href = PageUrl
    /\ lastClick = [handler |-> "none", arg |-> NoArg]
    /\ dom = render(type, _userDetails, options)

NextEncode == \E i \in 1..Len(dom.buttons) : ClickButton(i)

SpecEncode == InitEncode /\ [][NextEncode]_vars

----------------------------------------------------------------------------
(* Reading a URL back, as its receiver does: the path ends at the first "?" *)
(* or "#", the query runs from the first "?" to the first "#", parameters   *)
(* are separated by "&", a name ends at the first "=", and a value is       *)
(* percent-decoded as UTF-8 (decodeURIComponent).                           *)

FirstIndex(s, cs) ==
    IF \E i \in 1..Len(s) : s[i] \in cs
    THEN CHOOSE i \in 1..Len(s) : s[i] \in cs /\ \A j \in 1..(i - 1) : s[j] \notin cs
    ELSE Len(s) + 1

UrlPath(u) == SubSeq(u, 1, FirstIndex(u, {"?", "#"}) - 1)

UrlQuery(u) ==
    LET beforeFragment == SubSeq(u, 1, FirstIndex(u, {"#"}) - 1)
    IN  SubSeq(beforeFragment, FirstIndex(beforeFragment, {"?"}) + 1, Len(beforeFragment))

UrlHasFragment(u) == \E i \in 1..Len(u) : u[i] = "#"

RECURSIVE SplitOn(_, _)
SplitOn(s, c) ==
    LET i == FirstIndex(s, {c})
    IN  IF i > Len(s) THEN <<s>>
        ELSE <<SubSeq(s, 1, i - 1)>> \o SplitOn(SubSeq(s, i + 1, Len(s)), c)

ParamName(param) == SubSeq(param, 1, FirstIndex(param, {"="}) - 1)
ParamValue(param) == SubSeq(param, FirstIndex(param, {"="}) + 1, Len(param))

IsHex(c) ==
    \/ \E i \in 1..Len(Digit) : Digit[i] = c
    \/ \E i \in 1..6 : Upper[i] = c \/ Lower[i] = c

HexVal(c) ==
    IF \E i \in 1..Len(Digit) : Digit[i] = c THEN IndexOf(Digit, c) - 1
    ELSE IF \E i \in 1..6 : Upper[i] = c THEN 9 + IndexOf(Upper, c)
    ELSE 9 + IndexOf(Lower, c)

EscapeAt(s, i) == Len(s) >= i + 2 /\ s[i] = "%" /\ IsHex(s[i + 1]) /\ IsHex(s[i + 2])
ByteAt(s, i) == 16 * HexVal(s[i + 1]) + HexVal(s[i + 2])

CharOf(n) ==
    IF \E c \in Chars : CharCode(c) = n
    THEN CHOOSE c \in Chars : CharCode(c) = n
    ELSE "URIError"

RECURSIVE decodeURIComponent(_)
decodeURIComponent(s) ==
    IF s = <<>> THEN <<>>
    ELSE IF Head(s) # "%" THEN <<Head(s)>> \o decodeURIComponent(Tail(s))
    ELSE IF ~EscapeAt(s, 1) THEN <<"URIError">>
    ELSE IF ByteAt(s, 1) < 128
         THEN <<CharOf(ByteAt(s, 1))>> \o decodeURIComponent(SubSeq(s, 4, Len(s)))
    ELSE IF ByteAt(s, 1) \in 192..223 /\ EscapeAt(s, 4) /\ ByteAt(s, 4) \in 128..191
         THEN <<CharOf((ByteAt(s, 1) - 192) * 64 + (ByteAt(s, 4) - 128))>>
                 \o decodeURIComponent(SubSeq(s, 7, Len(s)))
    ELSE <<"URIError">>

(* The characters the claims name as reserved. *)
ReservedChars == {"&", "=", "?", "#", "/"}

HasReserved(s) == \E i \in 1..Len(s) : s[i] \in ReservedChars

----------------------------------------------------------------------------
(* C1.  A click on a login button sets window.location.href to             *)
(* "/.auth/login/" + p + "?post_login_redirect_uri=" +                     *)
(* encodeURIComponent(loginRedirect), p the button's provider id: read     *)
(* back, the URL's path is the login route followed by p, it has no         *)
(* fragment, its query is the single parameter post_login_redirect_uri,     *)
(* whose value holds no unencoded "&", "=", "?", "#" or "/" and decodes to  *)
(* loginRedirect, whatever loginRedirect is.  (Under SpecEncode the         *)
(* properties keep the values they were created with, so the value the      *)
(* handler read is the current one.)                                        *)
C1_LoginUrl ==
    lastClick.handler = "onLoginClicked" =>
        LET p == lastClick.arg
            params == SplitOn(UrlQuery(href), "&")
        IN  /\ href = <<"/",".","a","u","t","h","/","l","o","g","i","n","/">> \o p
                        \o <<"?","p","o","s","t","_","l","o","g","i","n","_",
                             "r","e","d","i","r","e","c","t","_","u","r","i","=">>
                        \o encodeURIComponent(loginRedirect)
            /\ UrlPath(href) = <<"/",".","a","u","t","h","/","l","o","g","i","n","/">> \o p
            /\ ~UrlHasFragment(href)
            /\ Len(params) = 1
            /\ ParamName(params[1]) = <<"p","o","s","t","_","l","o","g","i","n","_",
                                        "r","e","d","i","r","e","c","t","_","u","r","i">>
            /\ ~HasReserved(ParamValue(params[1]))
            /\ decodeURIComponent(ParamValue(params[1])) = loginRedirect

(* A login button has been clicked while loginRedirect held three reserved  *)
(* characters, and the location is the login URL of the clicked provider.   *)
C1_Witness ==
    /\ lastClick = [handler |-> "onLoginClicked", arg |-> <<"g","i","t","h","u","b">>]
    /\ loginRedirect = <<"/", "?", "&">>
    /\ href = <<"/",".","a","u","t","h","/","l","o","g","i","n","/","g","i","t","h","u","b",
                "?","p","o","s","t","_","l","o","g","i","n","_",
                "r","e","d","i","r","e","c","t","_","u","r","i","=",
                "%","2","F","%","3","F","%","2","6">>

(* C2.  A click on a logout button sets window.location.href to            *)
(* "/.auth/logout?post_logout_redirect_uri=" +                             *)
(* encodeURIComponent(logoutRedirect): read back, the path is the logout    *)
(* route and the single parameter decodes to logoutRedirect.  Neither       *)
(* loginRedirect nor the user state enters.                                 *)
C2_LogoutUrl ==
    lastClick.handler = "onLogoutClicked" =>
        LET params == SplitOn(UrlQuery(href), "&")
        IN  /\ href = <<"/",".","a","u","t","h","/","l","o","g","o","u","t">>
                        \o <<"?","p","o","s","t","_","l","o","g","o","u","t","_",
                             "r","e","d","i","r","e","c","t","_","u","r","i","=">>
                        \o encodeURIComponent(logoutRedirect)
            /\ UrlPath(href) = <<"/",".","a","u","t","h","/","l","o","g","o","u","t">>
            /\ ~UrlHasFragment(href)
            /\ Len(params) = 1
            /\ ParamName(params[1]) = <<"p","o","s","t","_","l","o","g","o","u","t","_",
                                        "r","e","d","i","r","e","c","t","_","u","r","i">>
            /\ ~HasReserved(ParamValue(params[1]))
            /\ decodeURIComponent(ParamValue(params[1])) = logoutRedirect

(* The status branch's Logout button has been clicked with a user loaded    *)
(* and a loginRedirect that differs from logoutRedirect.                    *)
C2_Witness ==
    /\ lastClick.handler = "onLogoutClicked"
    /\ type = "status"
    /\ loaded /\ _userDetails = Alice
    /\ logoutRedirect = <<"#", "U+00E9", "=">>
    /\ loginRedirect = DeepLink
    /\ href = <<"/",".","a","u","t","h","/","l","o","g","o","u","t",
                "?","p","o","s","t","_","l","o","g","o","u","t","_",
                "r","e","d","i","r","e","c","t","_","u","r","i","=",
                "%","2","3","%","C","3","%","A","9","%","3","D">>

----------------------------------------------------------------------------
(* The three branches, told apart by the root of what is rendered.          *)
StatusRoots == {"section.auth-status"}
LogoutRoots == {"button.logout"}
LoginRoots == {"slot", "section.auth-login"}

InLoginBranch == type \notin {"status", "logout"}

(* C3.  What is rendered is decided by type alone: 'status' gives the       *)
(* status branch, 'logout' the logout branch, every other value the login   *)
(* branch, in every state of the fetch and for every user; the three        *)
(* branches are distinct, so exactly one is rendered.                       *)
C3_RenderDispatch ==
    /\ StatusRoots \cap LogoutRoots = {}
    /\ StatusRoots \cap LoginRoots = {}
    /\ LogoutRoots \cap LoginRoots = {}
    /\ type = "status" => dom.root \in StatusRoots /\ dom = renderStatus(_userDetails)
    /\ type = "logout" => dom.root \in LogoutRoots /\ dom = renderLogout
    /\ type \notin {"status", "logout"} =>
           dom.root \in LoginRoots /\ dom = renderLogin(_userDetails, options)

(* An unrecognised type with a user loaded: the login branch, as the slot. *)
C3_Witness ==
    /\ type = "unknown"
    /\ pc = "done" /\ _userDetails = Bob
    /\ dom.root = "slot"

(* C4.  In the login branch the login UI is shown exactly when no user is   *)
(* present: with a truthy _userDetails only the slot and no button; with    *)
(* undefined or null (and so all the time before the fetch has resolved)    *)
(* one button per entry of options.providers, in order, each calling        *)
(* onLoginClicked with that entry's id.                                     *)
C4_LoginIffNoUser ==
    InLoginBranch =>
        /\ Truthy(_userDetails) => dom.slot /\ dom.buttons = <<>>
        /\ _userDetails \in {Undefined, Null} =>
              /\ ~dom.slot
              /\ Len(dom.buttons) = Len(options.providers)
              /\ \A i \in 1..Len(options.providers) :
                    /\ dom.buttons[i].handler = "onLoginClicked"
                    /\ dom.buttons[i].arg = options.providers[i].id
                    /\ dom.buttons[i].label = options.providers[i].label
        /\ pc \in {"fetch", "json", "then"} =>
              ~dom.slot /\ Len(dom.buttons) = Len(options.providers)

(* The response said clientPrincipal: null, and the login branch shows the  *)
(* two configured providers' buttons.                                       *)
C4_Witness ==
    /\ type = "login"
    /\ pc = "done" /\ _userDetails = Null
    /\ Len(options.providers) = 2
    /\ Len(dom.buttons) = 2
    /\ dom.buttons[1].arg = <<"o","k","t","a">>
    /\ dom.buttons[2].arg = <<"g","i","t","h","u","b">>

(* C5.  Once the construction-time request has completed, _userDetails is   *)
(* the response payload's clientPrincipal (undefined when the payload is    *)
(* null or has no such member) and loaded is true; until then _userDetails  *)
(* is undefined and loaded is false.                                        *)
C5_UserFromPayload ==
    /\ pc = "done" =>
          /\ loaded
          /\ payload.kind = "null" => _userDetails = Undefined
          /\ ~payload.has => _userDetails = Undefined
          /\ payload.has => _userDetails = payload.clientPrincipal
    /\ pc \in {"fetch", "json", "then"} => _userDetails = Undefined /\ ~loaded

(* The request has completed with a body that has no clientPrincipal. *)
C5_Witness ==
    /\ pc = "done"
    /\ payload.kind = "object" /\ ~payload.has
    /\ _userDetails = Undefined
    /\ loaded

(* C6.  The instance requests "/.auth/me" exactly once, at construction:    *)
(* no click, property change, render, completion or failure adds a request. *)
C6_SingleRequest ==
    /\ Len(requests) = 1
    /\ requests[1] = <<"/",".","a","u","t","h","/","m","e">>

(* After a failed request, a property change and a click, there is still    *)
(* the one request.                                                         *)
C6_Witness ==
    /\ pc = "failed"
    /\ type = "logout"
    /\ optionsAttr.valid
    /\ lastClick.handler = "onLogoutClicked"
    /\ Len(requests) = 1

(* C7.  _userDetails and loaded are written only by the completion of the   *)
(* construction-time fetch, which happens at most once; a click changes     *)
(* window.location.href and neither of them; loaded never goes back to      *)
(* false and _userDetails never changes once loaded.                        *)
C7_UserStateWrittenOnce ==
    [][ /\ <<_userDetails, loaded>>' # <<_userDetails, loaded>> =>
              pc = "then" /\ pc' = "done"
        /\ pc = "done" => pc' = "done"
        /\ loaded => loaded' /\ _userDetails' = _userDetails
        /\ <<href, lastClick>>' # <<href, lastClick>> =>
              /\ <<_userDetails, loaded>>' = <<_userDetails, loaded>>
              /\ <<type, loginRedirect, logoutRedirect, options, pc, payload, requests>>'
                    = <<type, loginRedirect, logoutRedirect, options, pc, payload, requests>>
      ]_vars

(* A user is loaded and the Logout button has been clicked. *)
C7_Witness ==
    /\ loaded /\ _userDetails = Alice
    /\ lastClick.handler = "onLogoutClicked"
    /\ href # PageUrl

(* C8.  In the status branch "Logged in as <display name>" and the logout   *)
(* button are rendered exactly when a user is present; otherwise only the   *)
(* person icon; and no button of the branch logs in.                        *)
C8_StatusIffUser ==
    type = "status" =>
        /\ dom.icon = "personSvg"
        /\ Truthy(_userDetails) =>
              /\ dom.text = <<"Logged in as ", _userDetails.userDetails>>
              /\ Len(dom.buttons) = 1
              /\ dom.buttons[1].handler = "onLogoutClicked"
        /\ ~Truthy(_userDetails) => dom.text = <<>> /\ dom.buttons = <<>>
        /\ \A i \in 1..Len(dom.buttons) : dom.buttons[i].handler # "onLoginClicked"

(* The response had no clientPrincipal: the status branch is the icon alone. *)
C8_Witness ==
    /\ type = "status"
    /\ pc = "done" /\ ~payload.has
    /\ dom.icon = "personSvg" /\ dom.text = <<>> /\ dom.buttons = <<>>

(* What a component without a user renders. *)
RendersNoUser ==
    /\ type = "status" => dom.text = <<>> /\ dom.buttons = <<>>
    /\ InLoginBranch =>
          /\ ~dom.slot
          /\ Len(dom.buttons) = Len(options.providers)
          /\ \A i \in 1..Len(dom.buttons) : dom.buttons[i].handler = "onLoginClicked"

(* C9.  If the construction-time request fails, the component stays in its  *)
(* initial user state for good: _userDetails undefined, loaded false, what  *)
(* is rendered is what 'no user' renders, and no second request is made.    *)
C9_FailedStaysInitial ==
    [][ /\ pc' = "failed" =>
              /\ _userDetails' = Undefined
              /\ loaded' = FALSE
              /\ RendersNoUser'
              /\ Len(requests') = 1
        /\ pc = "failed" => pc' = "failed"
      ]_vars

(* The body was not JSON; the status branch shows the icon alone. *)
C9_Witness ==
    /\ pc = "failed"
    /\ type = "status"
    /\ ~loaded /\ _userDetails = Undefined
    /\ dom.text = <<>> /\ dom.buttons = <<>>

(* C10.  The options converter merges shallowly over the defaults: a        *)
(* missing or empty attribute gives defaultOptions; a JSON object replaces  *)
(* each of 'strings' and 'providers' it has, as a whole, and leaves the     *)
(* default for each it lacks; options always has both entries.              *)
C10_ShallowMerge ==
    /\ {"strings", "providers"} \subseteq DOMAIN options
    /\ optionsAttr.kind = "null" \/ optionsAttr.empty => options = defaultOptions
    /\ optionsAttr.valid =>
          \A k \in {"strings", "providers"} :
              IF k \in DOMAIN optionsAttr.json
              THEN options[k] = optionsAttr.json[k]
              ELSE options[k] = defaultOptions[k]

(* The attribute gave strings with a loginButton only: the strings are      *)
(* those, without the default logoutButton, and the providers the defaults. *)
C10_Witness ==
    /\ optionsAttr.valid
    /\ DOMAIN optionsAttr.json = {"strings"}
    /\ options.strings = [loginButton |-> "Sign in"]
    /\ options.providers = defaultOptions.providers

=============================================================================
